---- MODULE Spec2Model ----
(***************************************************************************)
(* Model of zephyr::PrintLog (src/log.cpp): a printf-style logging facade  *)
(* over one process-wide Boost.Log severity_logger_mt.  PrintLog renders   *)
(* the text, registers the scoped logger attributes "Tag" and "ProcessID"  *)
(* on the shared logger, splits the text on '\n' and pushes one record per *)
(* segment to the sinks registered in the logging core: a synchronous      *)
(* console sink and, when CONFIG_SYSLOG is defined, a synchronous syslog   *)
(* sink.  Several threads call PrintLog concurrently.                      *)
(***************************************************************************)
EXTENDS Integers, Sequences, FiniteSets, TLC

(* ------------------------------ bounds -------------------------------- *)
\* Number of threads that call PrintLog.
NumThreads == 2
\* Total number of PrintLog calls made in one behaviour.
MaxCalls == 2
\* Longest rendered text, in characters, when the threads call concurrently.
MaxLen == 1
\* Longest rendered text, in characters, when one thread makes all the calls.
SeqMaxLen == 3

Threads == 1..NumThreads

(* ------------------------ LogLevel (log.h) ----------------------------- *)
\* log.h declares the enumeration; its six enumerators are numbered here in
\* their order, lowest urgency first.
LOG_VERBOSE == 0
LOG_DEBUG == 1
LOG_INFO == 2
LOG_WARN == 3
LOG_ERROR == 4
LOG_FATAL == 5
LogLevel == {LOG_VERBOSE, LOG_DEBUG, LOG_INFO, LOG_WARN, LOG_ERROR, LOG_FATAL}
\* int priorities that are no enumerator of LogLevel
OutOfRange == {-1, 6}
Priorities == LogLevel \cup OutOfRange
\* the priorities concurrent callers pass: an enumerator and an int that is
\* none (the severity has no part in how the calls interleave)
SomePriorities == {LOG_WARN, 6}

\* tags the callers pass
Tags == {"A", "B"}
\* the characters of a rendered text: an ordinary character and the newline
NL == "\n"
Chars == {"x", NL}
Texts(maxLen) == UNION {[1..n -> Chars] : n \in 0..maxLen}

\* getpid(): one process, one id
Pid == 77
\* attrs::local_clock read at open_record and rendered by
\* format_date_time(timestamp, "%Y-%m-%d-%H:%M:%S")
TS == "YYYY-MM-DD-HH:MM:SS"

(* --------------------------- pure helpers ------------------------------ *)
\* static std::string ToSimpleLevel(value_ref<LogLevel> const &l), with the
\* escape character (octal 033) written <ESC>:
\* l is a set holding the attribute's value, empty when the record has none.
ToSimpleLevel(l) ==
  IF l # {} THEN
    LET v == CHOOSE x \in l : TRUE IN
    CASE v = LOG_VERBOSE -> "V"
      [] v = LOG_DEBUG   -> "<ESC>[1;34mD<ESC>[0m"
      [] v = LOG_INFO    -> "<ESC>[01;36mI<ESC>[0m"
      [] v = LOG_WARN    -> "<ESC>[01;35mW<ESC>[0m"
      [] v = LOG_ERROR   -> "<ESC>[01;31mE<ESC>[0m"
      [] v = LOG_FATAL   -> "<ESC>[01;31mF<ESC>[0m"
      [] OTHER           -> ""
  ELSE ""

\* static_cast<LogLevel>(priority): the int is stored as is
CastLogLevel(priority) == priority

\* operator<< of a std::string on the formatting stream: the bytes of s,
\* nothing for the empty string
Put(s) == IF s = "" THEN <<>> ELSE <<s>>

\* expr::attr<T>(name) in a formatter: the value if the record has the
\* attribute, nothing otherwise
AttrValue(values, name) ==
  IF name \in DOMAIN values THEN {values[name]} ELSE {}

\* operator<< of an integer: its decimal digits
Digit(d) == <<"0", "1", "2", "3", "4", "5", "6", "7", "8", "9">>[d + 1]

RECURSIVE ToDecimal(_)
ToDecimal(n) ==
  IF n < 0 THEN "-" \o ToDecimal(0 - n)
  ELSE IF n < 10 THEN Digit(n)
  ELSE ToDecimal(n \div 10) \o Digit(n % 10)

\* stream << expr::attr<T>(name): the value's text, nothing when the record
\* has no attribute of that name
PutAttr(values, name) ==
  IF name \in DOMAIN values
  THEN IF name = "ProcessID" THEN <<ToDecimal(values[name])>>
       ELSE Put(values[name])
  ELSE <<>>

\* "\033[01;37m" and "\033[0m" around the tag
BoldWhite == "<ESC>[01;37m"
Reset == "<ESC>[0m"

\* the formatter set on the console sink: the bytes of one record, as the
\* sequence of the pieces put on the stream
Formatter(rec) ==
  PutAttr(rec.values, "TimeStamp") \o <<" ">>
    \o Put(ToSimpleLevel(AttrValue(rec.values, "Severity")))
    \o <<"/">>
    \o <<BoldWhite>> \o PutAttr(rec.values, "Tag") \o <<Reset>>
    \o <<"(">> \o PutAttr(rec.values, "ProcessID") \o <<")">>
    \o <<": ">> \o rec.message

\* boost::split(split_strings, result, boost::is_any_of("\n")) with the
\* default token_compress_off: scan left to right, a delimiter closes the
\* current segment (empty or not) and opens a new one; the end of the input
\* closes the last one.
RECURSIVE SplitFrom(_, _, _, _)
SplitFrom(s, i, cur, acc) ==
  IF i > Len(s) THEN Append(acc, cur)
  ELSE IF s[i] = NL THEN SplitFrom(s, i + 1, <<>>, Append(acc, cur))
  ELSE SplitFrom(s, i + 1, Append(cur, s[i]), acc)

\* a split that drops the empty segments
SplitSkipEmpty(s) ==
  SelectSeq(SplitFrom(s, 1, <<>>, <<>>), LAMBDA g : g # <<>>)

Split(s) == SplitFrom(s, 1, <<>>, <<>>)

\* sinks::syslog levels set in the mapping table
Mapping ==
  (LOG_VERBOSE :> "debug") @@ (LOG_DEBUG :> "debug") @@ (LOG_INFO :> "info")
    @@ (LOG_WARN :> "warning") @@ (LOG_ERROR :> "error")
    @@ (LOG_FATAL :> "critical")

\* custom_severity_mapping<LogLevel> mapping("LogLevel"): the name of the
\* attribute the mapper reads from the record
MappingAttr == "LogLevel"
\* the level the mapper yields when the record has no such attribute or the
\* table has no entry for its value
MappingDefault == "info"

\* the severity mapper of the syslog backend applied to a record
SeverityMapper(rec) ==
  LET l == AttrValue(rec.values, MappingAttr) IN
  IF l # {} /\ (CHOOSE x \in l : TRUE) \in DOMAIN Mapping
  THEN Mapping[CHOOSE x \in l : TRUE]
  ELSE MappingDefault

(* ------------------------------- state --------------------------------- *)
VARIABLES
  syslogOn,   \* the build defines CONFIG_SYSLOG
  sinks,      \* logging::core's sink registry, in add_sink order
  attrs,      \* the attribute set of the global logger besides "TimeStamp"
  mutex,      \* per sink: the thread holding its backend mutex, 0 if free
  th,         \* per thread: the locals of its PrintLog call and its position
  console,    \* the chunks written to std::clog, in stream order
  syslog,     \* the messages sent to the system log
  calls       \* the PrintLog calls made so far: their arguments and, per
              \* call, the sinks its records were fed to, in order

vars == <<syslogOn, sinks, attrs, mutex, th, console, syslog, calls>>

SinkNames == {"console", "syslog"}

NoRecord == [values |-> <<>>, message |-> <<>>]

\* the locals of a thread that is not inside PrintLog
Idle ==
  [pc |-> "idle", call |-> 0, priority |-> 0, tag |-> "", result |-> <<>>,
   tagSentry |-> FALSE, pidSentry |-> FALSE,
   split_strings |-> <<>>, iter |-> 0, rec |-> NoRecord,
   pend |-> <<>>, it |-> 0, all_locked |-> FALSE, shuffled |-> FALSE]

\* BOOST_LOG_GLOBAL_LOGGER_INIT: the logger has "TimeStamp" only; the console
\* sink is registered first, the syslog sink second under CONFIG_SYSLOG.
InitSinks(withSyslog) ==
  IF withSyslog THEN <<"console", "syslog">> ELSE <<"console">>

Init ==
  /\ syslogOn \in BOOLEAN
  /\ sinks = InitSinks(syslogOn)
  /\ attrs = <<>>
  /\ mutex = [s \in SinkNames |-> 0]
  /\ th = [t \in Threads |-> Idle]
  /\ console = <<>>
  /\ syslog = {}
  /\ calls = <<>>

(* ------------------------- Boost.Log pieces ---------------------------- *)
\* attribute_set::insert as used by logger.add_attribute: no effect when the
\* name is taken; the result says whether the attribute was inserted
AddAttribute(set, name, value) ==
  IF name \in DOMAIN set
  THEN [set |-> set, inserted |-> FALSE]
  ELSE [set |-> set @@ (name :> value), inserted |-> TRUE]

\* a sentry whose destructor leaves the attribute registered
RemoveAttributeNoop(set, name) == set

\* logger.remove_attribute(iterator)
RemoveAttribute(set, name) ==
  [n \in DOMAIN set \ {name} |-> set[n]]

\* core::open_record on the logger's attributes with keywords::severity: the
\* attribute values are frozen into the record while the logger is locked
OpenRecord(priority, message) ==
  [values |-> ("Severity" :> CastLogLevel(priority)) @@ ("TimeStamp" :> TS)
                @@ attrs,
   message |-> message]

\* an unlocked sink frontend: the backend is fed whoever holds the mutex
BackendFreeAlways(s) == TRUE

\* synchronous_sink::try_consume / consume: the backend mutex can be taken
BackendFree(s) == mutex[s] = 0

\* "--end" without the swap: the last sink is dropped, not the one fed
RemoveLast(pend, it) == SubSeq(pend, 1, Len(pend) - 1)

\* core::push_record: "--end; end->swap(*it)" drops the sink at it from the
\* sinks still to feed by moving the last one into its place
Remove(pend, it) ==
  [k \in 1..(Len(pend) - 1) |-> IF k = it THEN pend[Len(pend)] ELSE pend[k]]

Perms(q) ==
  {p \in [1..Len(q) -> {q[k] : k \in 1..Len(q)}] :
     \A k \in 1..Len(q) : \E j \in 1..Len(q) : p[j] = q[k]}

\* core::push_record between two sink calls: where the dispatch loop goes
\* next from the locals d.  It goes on trying sinks without blocking; after
\* a round in which every remaining sink was busy it shuffles the remaining
\* sinks once and blocks on the first.
Advance(d) ==
  IF d.it <= Len(d.pend) THEN {[d EXCEPT !.pc = "push"]}
  ELSE IF d.pend = <<>> THEN
    {[d EXCEPT !.pc = "loop", !.iter = d.iter + 1, !.rec = NoRecord,
               !.it = 0, !.all_locked = FALSE, !.shuffled = FALSE]}
  ELSE IF d.all_locked THEN
    {[d EXCEPT !.pc = "block", !.pend = p, !.it = 1, !.shuffled = TRUE] :
       p \in IF d.shuffled THEN {d.pend} ELSE Perms(d.pend)}
  ELSE {[d EXCEPT !.pc = "push", !.it = 1, !.all_locked = TRUE]}

\* text_ostream_backend::consume under the backend mutex: first the
\* formatted record is written to std::clog ...
WriteRecord(c, i, rec) ==
  [call |-> c, seg |-> i, part |-> "record", bytes |-> Formatter(rec)]

\* ... then the newline is put
WriteNewline(c, i) ==
  [call |-> c, seg |-> i, part |-> "newline", bytes |-> <<NL>>]

\* syslog_backend::consume under the backend mutex: the message text is sent
\* to the "user" facility at the level the severity mapper yields
Send(c, i, rec) ==
  [call |-> c, seg |-> i, level |-> SeverityMapper(rec),
   message |-> rec.message]

(* ------------------------------ actions -------------------------------- *)
Busy(t) == th[t].pc # "idle"

\* a PrintLog without the "tmp == 0" return: it goes on with an empty result
RenderFailNoReturn(t, priority, tag) ==
  /\ th[t].pc = "idle"
  /\ Len(calls) < MaxCalls
  /\ calls' = Append(calls, [priority |-> priority, tag |-> tag, ok |-> FALSE,
                             result |-> <<>>, alone |-> TRUE, fed |-> <<>>])
  /\ th' = [th EXCEPT ![t] = [Idle EXCEPT !.pc = "tag",
                                          !.call = Len(calls) + 1,
                                          !.priority = priority, !.tag = tag]]
  /\ UNCHANGED <<syslogOn, sinks, attrs, mutex, console, syslog>>

\* PrintLog lines 133-143: vasprintf leaves tmp null, the call returns
RenderFail(t, priority, tag) ==
  /\ th[t].pc = "idle"
  /\ Len(calls) < MaxCalls
  /\ calls' = Append(calls, [priority |-> priority, tag |-> tag, ok |-> FALSE,
                             result |-> <<>>, alone |-> TRUE, fed |-> <<>>])
  /\ UNCHANGED <<syslogOn, sinks, attrs, mutex, th, console, syslog>>

\* PrintLog lines 133-147: vasprintf renders text, result = tmp
RenderOk(t, priority, tag, text) ==
  /\ th[t].pc = "idle"
  /\ Len(calls) < MaxCalls
  /\ LET c == Len(calls) + 1
         others == {th[u].call : u \in {u \in Threads : u # t /\ Busy(u)}}
     IN /\ calls' = [k \in 1..c |->
                       IF k = c
                       THEN [priority |-> priority, tag |-> tag, ok |-> TRUE,
                             result |-> text, alone |-> others = {},
                             fed |-> <<>>]
                       ELSE IF k \in others
                       THEN [calls[k] EXCEPT !.alone = FALSE]
                       ELSE calls[k]]
        /\ th' = [th EXCEPT ![t] = [Idle EXCEPT !.pc = "tag", !.call = c,
                                      !.priority = priority, !.tag = tag,
                                      !.result = text]]
  /\ UNCHANGED <<syslogOn, sinks, attrs, mutex, console, syslog>>

\* line 149: BOOST_LOG_SCOPED_LOGGER_TAG(logger::get(), "Tag", tag); the
\* sentry remembers the attribute only if it was inserted
AddTagAttr(t) ==
  /\ th[t].pc = "tag"
  /\ LET r == AddAttribute(attrs, "Tag", th[t].tag)
     IN /\ attrs' = r.set
        /\ th' = [th EXCEPT ![t].pc = "pid", ![t].tagSentry = r.inserted]
  /\ UNCHANGED <<syslogOn, sinks, mutex, console, syslog, calls>>

\* lines 150-156: BOOST_LOG_SCOPED_LOGGER_TAG(.., "ProcessID", getpid()),
\* then boost::split and iter = split_strings.begin()
AddPidAttr(t) ==
  /\ th[t].pc = "pid"
  /\ LET r == AddAttribute(attrs, "ProcessID", Pid)
     IN /\ attrs' = r.set
        /\ th' = [th EXCEPT ![t].pc = "loop", ![t].pidSentry = r.inserted,
                            ![t].split_strings = Split(th[t].result),
                            ![t].iter = 1]
  /\ UNCHANGED <<syslogOn, sinks, mutex, console, syslog, calls>>

\* lines 157-158, 128-130: BOOST_LOG_SEV opens a record for *iter; every
\* registered sink accepts it; push_record starts at the first one
LogOpen(t) ==
  /\ th[t].pc = "loop"
  /\ th[t].iter <= Len(th[t].split_strings)
  /\ \E d \in Advance([th[t] EXCEPT
                         !.rec = OpenRecord(th[t].priority,
                                            th[t].split_strings[th[t].iter]),
                         !.pend = sinks, !.it = 1, !.all_locked = TRUE,
                         !.shuffled = (Len(sinks) <= 1)]) :
       th' = [th EXCEPT ![t] = d]
  /\ UNCHANGED <<syslogOn, sinks, attrs, mutex, console, syslog, calls>>

\* the sink s takes its backend mutex for thread t and starts on the record
StartFeed(t, s) ==
  /\ mutex' = [mutex EXCEPT ![s] = t]
  /\ console' = IF s = "console"
                THEN Append(console,
                            WriteRecord(th[t].call, th[t].iter, th[t].rec))
                ELSE console
  /\ UNCHANGED <<syslogOn, sinks, attrs, syslog, calls>>

\* push_record: try_consume on the sink at it finds the backend mutex free
TryConsumeOk(t) ==
  /\ th[t].pc = "push"
  /\ BackendFree(th[t].pend[th[t].it])
  /\ StartFeed(t, th[t].pend[th[t].it])
  /\ th' = [th EXCEPT ![t].pc = "feed", ![t].all_locked = FALSE]

\* push_record: try_consume finds the backend mutex held, ++it
TryConsumeBusy(t) ==
  /\ th[t].pc = "push"
  /\ ~BackendFree(th[t].pend[th[t].it])
  /\ \E d \in Advance([th[t] EXCEPT !.it = th[t].it + 1]) :
       th' = [th EXCEPT ![t] = d]
  /\ UNCHANGED <<syslogOn, sinks, attrs, mutex, console, syslog, calls>>

\* push_record: every remaining sink was busy, consume blocks on the first
\* until its backend mutex is free
BlockConsume(t) ==
  /\ th[t].pc = "block"
  /\ BackendFree(th[t].pend[th[t].it])
  /\ StartFeed(t, th[t].pend[th[t].it])
  /\ th' = [th EXCEPT ![t].pc = "feed"]

\* the backend finishes the record, the mutex is released and push_record
\* drops the sink from those still to feed
FinishConsume(t) ==
  /\ th[t].pc = "feed"
  /\ LET s == th[t].pend[th[t].it]
         c == th[t].call
     IN /\ console' = IF s = "console"
                      THEN Append(console, WriteNewline(c, th[t].iter))
                      ELSE console
        /\ syslog' = IF s = "syslog"
                     THEN syslog \cup {Send(c, th[t].iter, th[t].rec)}
                     ELSE syslog
        /\ mutex' = [mutex EXCEPT ![s] = 0]
        /\ calls' = [calls EXCEPT
                       ![c].fed = Append(@, [seg |-> th[t].iter, sink |-> s])]
  /\ \E d \in Advance([th[t] EXCEPT !.pend = Remove(th[t].pend, th[t].it)]) :
       th' = [th EXCEPT ![t] = d]
  /\ UNCHANGED <<syslogOn, sinks, attrs>>

\* line 160: the "ProcessID" sentry goes out of scope first
RemovePidAttr(t) ==
  /\ th[t].pc = "loop"
  /\ th[t].iter > Len(th[t].split_strings)
  /\ attrs' = IF th[t].pidSentry THEN RemoveAttribute(attrs, "ProcessID")
              ELSE attrs
  /\ th' = [th EXCEPT ![t].pc = "untag", ![t].pidSentry = FALSE]
  /\ UNCHANGED <<syslogOn, sinks, mutex, console, syslog, calls>>

\* line 160: then the "Tag" sentry, and PrintLog returns
RemoveTagAttr(t) ==
  /\ th[t].pc = "untag"
  /\ attrs' = IF th[t].tagSentry THEN RemoveAttribute(attrs, "Tag")
              ELSE attrs
  /\ th' = [th EXCEPT ![t] = Idle]
  /\ UNCHANGED <<syslogOn, sinks, mutex, console, syslog, calls>>

\* the threads call PrintLog concurrently
Next ==
  \/ \E t \in Threads, p \in SomePriorities, g \in Tags : RenderFail(t, p, g)
  \/ \E t \in Threads, p \in SomePriorities, g \in Tags, x \in Texts(MaxLen) :
       RenderOk(t, p, g, x)
  \/ \E t \in Threads : AddTagAttr(t)
  \/ \E t \in Threads : AddPidAttr(t)
  \/ \E t \in Threads : LogOpen(t)
  \/ \E t \in Threads : TryConsumeOk(t)
  \/ \E t \in Threads : TryConsumeBusy(t)
  \/ \E t \in Threads : BlockConsume(t)
  \/ \E t \in Threads : FinishConsume(t)
  \/ \E t \in Threads : RemovePidAttr(t)
  \/ \E t \in Threads : RemoveTagAttr(t)

Spec == Init /\ [][Next]_vars

\* one thread makes all the calls, with any priority and longer texts; no
\* backend mutex is ever found held
NextSeq ==
  \/ \E p \in Priorities, g \in Tags : RenderFail(1, p, g)
  \/ \E p \in Priorities, g \in Tags, x \in Texts(SeqMaxLen) :
       RenderOk(1, p, g, x)
  \/ AddTagAttr(1)
  \/ AddPidAttr(1)
  \/ LogOpen(1)
  \/ TryConsumeOk(1)
  \/ FinishConsume(1)
  \/ RemovePidAttr(1)
  \/ RemoveTagAttr(1)

SpecSeq == Init /\ [][NextSeq]_vars

(* ---------------------- reading the outputs back ----------------------- *)
\* the PrintLog calls made so far
Calls == 1..Len(calls)

\* call c has returned
Finished(c) == \A t \in Threads : th[t].call # c

\* the records call c wrote to the console, in stream order
Records(c) == SelectSeq(console, LAMBDA e : e.call = c /\ e.part = "record")

IndexOf(q, x) ==
  IF \E k \in 1..Len(q) : q[k] = x
  THEN CHOOSE k \in 1..Len(q) : q[k] = x /\ \A j \in 1..(k - 1) : q[j] # x
  ELSE 0

\* the message field of a console line: what follows ": "
MessageOf(bytes) == SubSeq(bytes, IndexOf(bytes, ": ") + 1, Len(bytes))

\* the tag field of a console line: what stands between the two escapes
TagOf(bytes) ==
  SubSeq(bytes, IndexOf(bytes, BoldWhite) + 1, IndexOf(bytes, Reset) - 1)

\* the process id field of a console line: what stands between "(" and ")"
PidOf(bytes) == SubSeq(bytes, IndexOf(bytes, "(") + 1, IndexOf(bytes, ")") - 1)

\* the number of newline characters of a text
Newlines(text) == Cardinality({k \in 1..Len(text) : text[k] = NL})

\* the segments joined with a newline between two neighbours
RECURSIVE Join(_)
Join(segs) ==
  IF segs = <<>> THEN <<>>
  ELSE IF Len(segs) = 1 THEN segs[1]
  ELSE segs[1] \o <<NL>> \o Join(Tail(segs))

\* the console line of the layout
\*   <timestamp> <glyph>/<tag>(<pid>): <message>
\* without its newline
Line(glyph, tag, pid, message) ==
  <<TS, " ">> \o Put(glyph) \o <<"/", BoldWhite, tag, Reset, "(",
    ToDecimal(pid), ")", ": ">> \o message

(* ------------------------------- claims -------------------------------- *)

\* C1: every record fed to a sink carries the tag that was passed to the
\* PrintLog call that emitted it, whatever the interleaving of the calls.
C1_RecordCarriesOwnTag ==
  \A t \in Threads :
    th[t].pc \in {"push", "block", "feed"} =>
      AttrValue(th[t].rec.values, "Tag") = {th[t].tag}

\* C2: every message sent to the system log for a call whose priority is one
\* of the six severities is sent at the level the mapping table gives that
\* severity.
C2_SyslogLevelMapped ==
  \A e \in syslog :
    calls[e.call].priority \in LogLevel =>
      e.level = Mapping[calls[e.call].priority]

\* C3: the bytes of one record are contiguous on the console stream: a
\* record's text is followed by its own newline and by nothing else, and a
\* newline follows the text of its own record.
C3_ConsoleRecordsContiguous ==
  \A k \in 1..Len(console) :
    /\ (console[k].part = "record" /\ k < Len(console)) =>
         /\ console[k + 1].part = "newline"
         /\ console[k + 1].call = console[k].call
         /\ console[k + 1].seg = console[k].seg
    /\ console[k].part = "newline" =>
         /\ k > 1
         /\ console[k - 1].part = "record"
         /\ console[k - 1].call = console[k].call
         /\ console[k - 1].seg = console[k].seg

\* C3 witness: a thread is writing a record to the console while another
\* thread with a record for the console waits for the console sink.
C3_Witness ==
  \E t, u \in Threads :
    /\ t # u
    /\ th[t].pc = "feed" /\ th[t].pend[th[t].it] = "console"
    /\ th[u].pc = "block" /\ th[u].pend[th[u].it] = "console"
    /\ console # <<>> /\ console[Len(console)].part = "record"

\* C4: a call that has returned after rendering a text with N newlines wrote
\* exactly N+1 console records, in segment order, whose message fields joined
\* with a newline are the text; a text ending in a newline gives a last
\* record with an empty message.
C4_SplitRoundTrip ==
  \A c \in Calls :
    (calls[c].ok /\ Finished(c)) =>
      LET r == Records(c)
          text == calls[c].result
      IN /\ Len(r) = Newlines(text) + 1
         /\ \A k \in 1..Len(r) : r[k].seg = k
         /\ Join([k \in 1..Len(r) |-> MessageOf(r[k].bytes)]) = text
         /\ (text # <<>> /\ text[Len(text)] = NL) =>
              MessageOf(r[Len(r)].bytes) = <<>>

\* C4 witness: a call has returned whose text has two newlines, the last one
\* at its end.
C4_Witness ==
  \E c \in Calls :
    /\ calls[c].ok /\ Finished(c)
    /\ Newlines(calls[c].result) = 2
    /\ calls[c].result[Len(calls[c].result)] = NL
    /\ Len(Records(c)) = 3

\* C5: every console record of a call with one of the six severities is the
\* timestamp, a space, the glyph of the severity, "/", a tag between the
\* bold-white escapes, "(", the process id, ")", ": " and the message, with
\* no field left out, and a newline after it.
C5_ConsoleLineLayout ==
  \A k \in 1..Len(console) :
    (console[k].part = "record"
       /\ calls[console[k].call].priority \in LogLevel) =>
      /\ \E g \in Tags :
           console[k].bytes =
             Line(ToSimpleLevel({calls[console[k].call].priority}), g, Pid,
                  MessageOf(console[k].bytes))
      /\ k < Len(console) => console[k + 1].bytes = <<NL>>

\* C6: a call that has returned after rendering the empty string wrote
\* exactly one record, with an empty message field and the call's tag.
C6_EmptyTextOneRecord ==
  \A c \in Calls :
    (calls[c].ok /\ calls[c].result = <<>> /\ Finished(c)) =>
      /\ Len(Records(c)) = 1
      /\ MessageOf(Records(c)[1].bytes) = <<>>
      /\ TagOf(Records(c)[1].bytes) = <<calls[c].tag>>

\* the step in which a PrintLog call fails to render
RenderFailed ==
  /\ Len(calls') = Len(calls) + 1
  /\ ~calls'[Len(calls')].ok

\* C7: a PrintLog call that fails to render returns at once: the step leaves
\* the logger's attributes, the sink registry, the console and the system log
\* as they were and no thread inside PrintLog, and no record of the call ever
\* reaches a sink.
C7_RenderFailureSilent ==
  /\ [][RenderFailed =>
          /\ attrs' = attrs /\ sinks' = sinks /\ mutex' = mutex
          /\ console' = console /\ syslog' = syslog
          /\ th' = th]_vars
  /\ [](\A c \in Calls :
          ~calls[c].ok =>
            /\ calls[c].fed = <<>>
            /\ Finished(c)
            /\ \A k \in 1..Len(console) : console[k].call # c
            /\ \A e \in syslog : e.call # c)

\* C7 witness: the last call failed to render while another call had "Tag"
\* and "ProcessID" registered on the logger.
C7_Witness ==
  /\ calls # <<>>
  /\ ~calls[Len(calls)].ok
  /\ DOMAIN attrs = {"Tag", "ProcessID"}
  /\ \E t \in Threads : th[t].pc = "loop"

\* C8: a call that has returned, made with a priority outside the
\* enumeration, wrote one console record per segment of its text, each with
\* an empty glyph and the call's own tag, process id and segment.
C8_OutOfRangePriority ==
  \A c \in Calls :
    (calls[c].ok /\ calls[c].priority \notin LogLevel /\ Finished(c)) =>
      LET r == Records(c) IN
      /\ Len(r) = Newlines(calls[c].result) + 1
      /\ \A k \in 1..Len(r) :
           r[k].bytes = Line("", calls[c].tag, Pid, MessageOf(r[k].bytes))

\* the sinks line k of a call was fed to, first and second
FedPair(f, k) == <<f[2 * k - 1].sink, f[2 * k].sink>>

\* C9 as stated: with the system-log sink enabled, a call feeds line 1 to the
\* console, line 1 to the system log, line 2 to the console, line 2 to the
\* system log and so on, each line once per sink.
C9_ConsoleBeforeSyslog ==
  syslogOn =>
    \A c \in Calls :
      LET f == calls[c].fed IN
      /\ \A k \in 1..Len(f) :
           f[k] = [seg |-> (k + 1) \div 2,
                   sink |-> IF k % 2 = 1 THEN "console" ELSE "syslog"]
      /\ (calls[c].ok /\ Finished(c)) =>
           Len(f) = 2 * (Newlines(calls[c].result) + 1)

\* C9 amended: with the system-log sink enabled, a call feeds every line to
\* each of the two sinks exactly once, line i to both before line i+1 to
\* either; the console comes first for a call that overlaps no other call.
C9_EachLineOncePerSink ==
  syslogOn =>
    \A c \in Calls :
      LET f == calls[c].fed IN
      /\ \A k \in 1..Len(f) : f[k].seg = (k + 1) \div 2
      /\ \A k \in 1..(Len(f) \div 2) :
           FedPair(f, k) \in {<<"console", "syslog">>, <<"syslog", "console">>}
      /\ (calls[c].ok /\ Finished(c)) =>
           Len(f) = 2 * (Newlines(calls[c].result) + 1)
      /\ calls[c].alone =>
           \A k \in 1..Len(f) :
             f[k].sink = IF k % 2 = 1 THEN "console" ELSE "syslog"

\* C9 witness: a call of two lines has returned, and its first line reached
\* the system log before the console.
C9_Witness ==
  /\ syslogOn
  /\ \E c \in Calls :
       /\ Finished(c) /\ Len(calls[c].fed) = 4
       /\ FedPair(calls[c].fed, 1) = <<"syslog", "console">>

\* C10: when no PrintLog call is in progress the global logger has neither
\* "Tag" nor "ProcessID", and every record of a returned call that overlapped
\* no other call carries that call's tag and the process id.
C10_NoAttributeLeftBehind ==
  /\ (\A t \in Threads : ~Busy(t)) => DOMAIN attrs = {}
  /\ \A c \in Calls :
       (calls[c].alone /\ Finished(c)) =>
         \A k \in 1..Len(Records(c)) :
           /\ TagOf(Records(c)[k].bytes) = <<calls[c].tag>>
           /\ PidOf(Records(c)[k].bytes) = <<ToDecimal(Pid)>>

\* C10 witness: two calls with different tags that overlapped and wrote
\* records have returned, and no call is in progress.
C10_Witness ==
  /\ \A t \in Threads : ~Busy(t)
  /\ \E c, d \in Calls :
       /\ c # d
       /\ calls[c].ok /\ calls[d].ok
       /\ ~calls[c].alone /\ ~calls[d].alone
       /\ calls[c].tag # calls[d].tag
       /\ Records(c) # <<>> /\ Records(d) # <<>>

====
